---------------------------- MODULE Spec2Model ----------------------------
(***************************************************************************)
(* A model of get-open-port (src/src/index.ts): the port selector          *)
(* getOpenPort, the multi-host verifier verifyPort, the prober             *)
(* checkPortAvailability, the lock table portManager with its sweep, and   *)
(* clearLockedPorts.                                                       *)
(*                                                                         *)
(* JavaScript runs one macrotask at a time and drains the microtask queue  *)
(* after it, so an action is one macrotask (a call from user code, a timer *)
(* callback, a socket callback) together with every promise continuation   *)
(* it triggers, up to the next await of a pending promise.                 *)
(*                                                                         *)
(* The socket layer (net.Server) and the clock are collaborators: which    *)
(* bind outcome a socket reports, which port the OS assigns for a port-0   *)
(* request and in which order callbacks run are nondeterministic.          *)
(***************************************************************************)
EXTENDS Integers, Sequences, FiniteSets, TLC

(***************************************************************************)
(* Bounds of the model.                                                    *)
(***************************************************************************)
\* concurrent getOpenPort calls
NumCalls == 2
\* distinct real port numbers callers name and the OS hands out
NumPorts == 2
\* non-internal network interfaces os.networkInterfaces() reports
NumExternal == 0
\* how many times the clock advances (by one cleanupInterval each time)
MaxTicks == 2

(***************************************************************************)
(* Program constants: portManager's defaults and the default probe timeout.*)
(***************************************************************************)
cleanupInterval == 15000
minPort == 1024
maxPort == 65535
DefaultTimeoutMs == 1000

CallIds == 1 .. NumCalls
\* the ports of the model: 0 is the ephemeral sentinel
RealPorts == minPort .. (minPort + NumPorts - 1)
Ports == {0} \cup RealPorts

(***************************************************************************)
(* Hosts.  0 stands for undefined (let the OS choose), 1 for "0.0.0.0",    *)
(* 1 + i for the address of the i-th non-internal interface.  The          *)
(* interface list also holds one internal interface (the loopback), which  *)
(* createHosts filters out.                                                *)
(***************************************************************************)
HostUndefined == 0
HostAny == 1
networkInterfaces ==
    {[address |-> 1 + NumExternal + 1, internal |-> TRUE]}
        \cup {[address |-> 1 + i, internal |-> FALSE] : i \in 1 .. NumExternal}

createHosts ==
    {HostUndefined, HostAny}
        \cup {config.address : config \in {c \in networkInterfaces : ~c.internal}}

(***************************************************************************)
(* Errors.  kind is the error's class or message family, code its .code    *)
(* (the empty string when the error carries none), arg the number its      *)
(* message embeds.                                                         *)
(***************************************************************************)
OsCodes == {"EADDRINUSE", "EACCES", "EADDRNOTAVAIL", "EINVAL"}
OsError(code) == [kind |-> "os", code |-> code, arg |-> 0]
\* new Error(`Port check timed out after ${timeoutMs}ms`)
TimeoutError(ms) == [kind |-> "timeout", code |-> "", arg |-> ms]
\* new LockedPortError(port)
LockedPortError(port) == [kind |-> "LockedPortError", code |-> "EPORTLOCKED", arg |-> port]
\* new Error(`Port ${port} is not available on any of the network interfaces: ...`)
NotAvailableError(port) == [kind |-> "notavailable", code |-> "", arg |-> port]
\* new Error("No available ports found")
NoPortsError == [kind |-> "noports", code |-> "", arg |-> 0]
NoError == [kind |-> "none", code |-> "", arg |-> 0]

(***************************************************************************)
(* Options of a getOpenPort call.  An optional field is a sequence of      *)
(* length 0 (undefined) or 1; options.port also records whether a number   *)
(* or an array was passed.                                                 *)
(***************************************************************************)
PortUndefined == [kind |-> "undefined", val |-> <<>>]
PortNumber(p) == [kind |-> "number", val |-> <<p>>]
PortArray(s) == [kind |-> "array", val |-> s]

\* [...new Set(s)]: the distinct elements of s in first-seen order
RECURSIVE Dedupe(_)
Dedupe(s) ==
    IF s = <<>> THEN <<>>
    ELSE LET front == SubSeq(s, 1, Len(s) - 1)
             last == s[Len(s)]
             rest == Dedupe(front)
         IN  IF \E i \in 1 .. Len(front) : front[i] = last THEN rest
             ELSE Append(rest, last)

\* createPorts returning the candidates in reverse order
createPortsReversed(port) ==
    LET s == IF port.kind = "array" THEN Dedupe(Dedupe(port.val))
             ELSE IF port.kind = "number" THEN port.val
             ELSE <<0>>
    IN  [j \in 1 .. Len(s) |-> s[Len(s) + 1 - j]]

\* createPorts appending the fallback port 0 its comment speaks of (lines 37-41)
createPortsWithFallback(port) ==
    IF port.kind = "array" THEN Append(Dedupe(port.val), 0)
    ELSE IF port.kind = "number" THEN Append(port.val, 0)
    ELSE <<0>>

\* createPorts applied to getOpenPort's argument (lines 179-185 and 42-45)
createPorts(port) ==
    IF port.kind = "array" THEN Dedupe(Dedupe(port.val))
    ELSE IF port.kind = "number" THEN port.val
    ELSE <<0>>

\* TimeoutMs ignoring the caller's timeout
TimeoutMsAlwaysDefault(timeout) == DefaultTimeoutMs

\* const timeoutMs = options.timeout || 1000
TimeoutMs(timeout) ==
    IF timeout = <<>> \/ timeout[1] = 0 THEN DefaultTimeoutMs ELSE timeout[1]

(***************************************************************************)
(* State.                                                                  *)
(***************************************************************************)
VARIABLES
    now,            \* Date.now()
    locked,         \* portManager.locked: a function from the locked ports to timestamps
    cleanupTimer,   \* portManager.cleanupTimer: the interval, with the time it next fires
    pc,             \* per call: "idle", "await" (suspended in verifyPort), "resolved", "rejected"
    opts,           \* per call: the options it was called with
    portsToCheck,   \* per call: the candidate list
    idx,            \* per call: the index in portsToCheck of the candidate being verified
    result,         \* per call: what its promise settled with
    probes,         \* per call, candidate index and host: the checkPortAvailability in flight
    fate,           \* history, per call and candidate: how it was reached, its verdict
    program,        \* which calls the program makes: fixed in a run
    config,         \* portManager.minPort and portManager.maxPort
    range           \* the last getPortRange call: its arguments and what it gave

vars ==
    <<now, locked, cleanupTimer, pc, opts, portsToCheck, idx, result, probes, fate, program, config, range>>

\* portManager's bounds as the module sets them (lines 24-25)
DefaultConfig == [minPort |-> minPort, maxPort |-> maxPort]

(***************************************************************************)
(* getPortRange.  A JavaScript value passed for from or to is a number,    *)
(* held as twice its value so that halves are representable, a string or   *)
(* NaN.  The call throws an error or returns an array.                     *)
(***************************************************************************)
Num(n) == [type |-> "number", twice |-> 2 * n]
Half(n) == [type |-> "number", twice |-> 2 * n + 1]
Str == [type |-> "string", twice |-> 0]
NaN == [type |-> "NaN", twice |-> 0]
\* Number.isInteger(v)
IsInteger(v) == v.type = "number" /\ v.twice % 2 = 0
\* the value of an integer number
IntOf(v) == v.twice \div 2

\* throw new TypeError("`from` and `to` must be integer numbers")
TypeError == [kind |-> "TypeError", names |-> "none", lo |-> 0, hi |-> 0, value |-> <<>>]
\* throw new RangeError(`\`${which}\` must be between ${lo} and ${hi}`)
BetweenError(which, lo, hi) ==
    [kind |-> "RangeError", names |-> which, lo |-> lo, hi |-> hi, value |-> <<>>]
\* throw new RangeError("`to` must be greater than or equal to `from`")
OrderError == [kind |-> "RangeError", names |-> "order", lo |-> 0, hi |-> 0, value |-> <<>>]
Returned(s) == [kind |-> "return", names |-> "none", lo |-> 0, hi |-> 0, value |-> s]
NoRange == [from |-> NaN, to |-> NaN, out |-> Returned(<<>>), called |-> FALSE]

\* getPortRange validating against the bounds the module starts with
getPortRangeDefaultBounds(from, to, pm) ==
    IF ~IsInteger(from) \/ ~IsInteger(to) THEN TypeError
    ELSE IF IntOf(from) < minPort \/ IntOf(from) > maxPort
         THEN BetweenError("from", minPort, maxPort)
    ELSE IF IntOf(to) < minPort \/ IntOf(to) > maxPort
         THEN BetweenError("to", minPort, maxPort)
    ELSE IF IntOf(from) > IntOf(to) THEN OrderError
    ELSE Returned([i \in 1 .. (IntOf(to) - IntOf(from) + 1) |-> IntOf(from) + (i - 1)])

\* getPortRange(from, to), pm being portManager (lines 234-256)
getPortRange(from, to, pm) ==
    IF ~IsInteger(from) \/ ~IsInteger(to) THEN TypeError
    ELSE IF IntOf(from) < pm.minPort \/ IntOf(from) > pm.maxPort
         THEN BetweenError("from", pm.minPort, pm.maxPort)
    ELSE IF IntOf(to) < pm.minPort \/ IntOf(to) > pm.maxPort
         THEN BetweenError("to", pm.minPort, pm.maxPort)
    ELSE IF IntOf(from) > IntOf(to) THEN OrderError
    ELSE Returned([i \in 1 .. (IntOf(to) - IntOf(from) + 1) |-> IntOf(from) + (i - 1)])

\* the longest array a caller passes as options.port
MaxList == 2

Hosts == createHosts
Slots == (1 .. MaxList) \X Hosts

(***************************************************************************)
(* Promises: pending, resolved with a port, or rejected with an error.     *)
(***************************************************************************)
Pending == [state |-> "pending", port |-> 0, err |-> NoError]
Resolved(p) == [state |-> "resolved", port |-> p, err |-> NoError]
Rejected(e) == [state |-> "rejected", port |-> 0, err |-> e]

(***************************************************************************)
(* A probe: one call of checkPortAvailability, with its server (socket),   *)
(* its timeout timer, the close callbacks registered and not yet run, and  *)
(* its promise.  probes[c] maps the slots (candidate index, host) of call  *)
(* c that hold a probe to that probe.                                      *)
(***************************************************************************)
\* lines 84-100: createServer, the timer, the error handler, server.listen
checkPortAvailability(port, timeout) ==
    [socket |-> "open", port |-> port, timeoutMs |-> TimeoutMs(timeout),
     timer |-> "armed", bind |-> "pending", cbs |-> <<>>, promise |-> Pending]

\* server.close(cb): the callback runs once the server has closed
serverClose(pr, cb) ==
    [pr EXCEPT !.socket = IF @ = "open" THEN "closing" ELSE @,
               !.cbs = Append(@, cb)]

\* clearTimeout(timeout)
clearTimeout(pr) == [pr EXCEPT !.timer = IF @ = "armed" THEN "cleared" ELSE @]

\* onTimeout neither closing the server nor rejecting
onTimeoutDoesNothing(pr) == [pr EXCEPT !.timer = "fired"]

\* lines 89-93: the timeout callback
onTimeout(pr) ==
    serverClose([pr EXCEPT !.timer = "fired"], Rejected(TimeoutError(pr.timeoutMs)))

\* onError rejecting at once, without closing the server
onErrorRejectsUnclosed(pr, err) ==
    [clearTimeout([pr EXCEPT !.bind = "done"]) EXCEPT !.promise = Rejected(err)]

\* lines 95-98: the error handler
onError(pr, err) ==
    serverClose(clearTimeout([pr EXCEPT !.bind = "done"]), Rejected(err))

\* server.address(): the bound address while the server has a handle, else null
HasAddress(pr) == pr.socket = "open"

\* lines 100-106: the listen callback, the socket being bound to port bound
onListening(pr, bound) ==
    LET cleared == clearTimeout([pr EXCEPT !.bind = "done"])
    IN  IF HasAddress(pr) THEN serverClose(cleared, Resolved(bound)) ELSE cleared

\* the first registered close callback runs: it settles the promise if still pending
onClosed(pr) ==
    [pr EXCEPT !.socket = "closed",
               !.cbs = Tail(@),
               !.promise = IF @.state = "pending" THEN Head(pr.cbs) ELSE @]

(***************************************************************************)
(* The lock table.                                                         *)
(***************************************************************************)
EmptyMap == [p \in {} |-> 0]
\* portManager.locked.has(port)
Has(lk, port) == port \in DOMAIN lk
\* portManager.locked.set(port, t)
\* MapSet that stamps the entry with time 0
MapSetEpoch(lk, port, t) == [p \in DOMAIN lk \cup {port} |-> IF p = port THEN 0 ELSE lk[p]]

MapSet(lk, port, t) == [p \in DOMAIN lk \cup {port} |-> IF p = port THEN t ELSE lk[p]]

NoTimer == [armed |-> FALSE, due |-> 0, since |-> 0]
NoProbes == [sl \in {} |-> 0]

\* Expired with a strict comparison
ExpiredStrictly(lk, t) == {p \in DOMAIN lk : t - lk[p] > cleanupInterval}

\* lines 50-57: the sweep at time t
Expired(lk, t) == {p \in DOMAIN lk : t - lk[p] >= cleanupInterval}
SweepAt(lk, t) == [p \in DOMAIN lk \ Expired(lk, t) |-> lk[p]]

(***************************************************************************)
(* verifyPort.                                                             *)
(***************************************************************************)
\* IsSingle without its test for port 0: an ephemeral request fans out too
IsSingleOnlyWithHost(o, port) == o.host # <<>>

\* line 120: one probe, on options.host, when a host was given or port is 0
IsSingle(o, port) == o.host # <<>> \/ port = 0

\* the hosts verifyPort probes for this port
VerifyHosts(o, port) ==
    IF IsSingle(o, port)
    THEN {IF o.host # <<>> THEN o.host[1] ELSE HostUndefined}
    ELSE Hosts

\* HostSwallowed with "permission denied" swallowed as well
HostSwallowedAlsoDenied(err) == err.code \in {"EADDRNOTAVAIL", "EINVAL", "EACCES"}

\* line 129: the per-host errors the fan-out swallows
HostSwallowed(err) == err.code \in {"EADDRNOTAVAIL", "EINVAL"}

\* lines 137-151: Promise.all has resolved; ps gives each host's settled promise
FanOutResult(port, ps) ==
    LET valid == {h \in DOMAIN ps : ps[h].state = "resolved"}
        first == CHOOSE h \in valid : \A g \in valid : h <= g
    IN  IF valid = {} \/ ps[first].port = 0
        THEN Rejected(NotAvailableError(port))
        ELSE Resolved(ps[first].port)

\* What verifyPort's promise does when the probe on host h settles with s, ps
\* giving the promises of the verification's probes after that: it stays
\* pending, resolves or rejects.
VerifyOutcome(o, port, ps, h) ==
    IF IsSingle(o, port) THEN ps[h]
    ELSE IF ps[h].state = "rejected" /\ ~HostSwallowed(ps[h].err) THEN ps[h]
    ELSE IF \E g \in DOMAIN ps : ps[g].state = "pending" THEN Pending
    ELSE FanOutResult(port, ps)

(***************************************************************************)
(* getOpenPort.  Its body between two awaits is a function of the options, *)
(* the candidate list, the lock table and the clock; it yields the call's  *)
(* next position, the lock table, and the hosts to start a probe on.       *)
(***************************************************************************)
\* Rethrown with "address in use" treated like "permission denied"
RethrownUnlessInUse(err) ==
    err.code \notin {"EACCES", "EADDRINUSE"} /\ err.kind # "LockedPortError"

\* Rethrown with every error swallowed: the loop always continues
RethrownNever(err) == FALSE

\* lines 206-216: the catch clause rethrows, or lets the loop continue
Rethrown(err) ==
    \/ err.code = "EADDRINUSE"
    \/ err.code \notin {"EACCES"} /\ err.kind # "LockedPortError"

Min(S) == CHOOSE x \in S : \A y \in S : x <= y

\* Exhausted without its look at the lock table
ExhaustedNoPorts(ports, lk) == NoPortsError

\* lines 219-225: every candidate is exhausted
Exhausted(ports, lk) ==
    LET lockedOnes == {j \in 1 .. Len(ports) : Has(lk, ports[j])}
    IN  IF lockedOnes # {}
        THEN LockedPortError(ports[Min(lockedOnes)])
        ELSE NoPortsError

(***************************************************************************)
(* History, per candidate: how the loop reached it ("untried", "skipped"   *)
(* by continue, "locked" when it threw LockedPortError without probing,    *)
(* "probed" when verifyPort was called for it) and what its last           *)
(* verifyPort settled with.                                                *)
(***************************************************************************)
Untried == [reach |-> "untried", verdict |-> Pending]
Reached(ft, i, how) == [ft EXCEPT ![i].reach = how]
Verdict(ft, i, outcome) == [ft EXCEPT ![i].verdict = outcome]

RECURSIVE Advance(_, _, _, _, _)
\* the catch clause for candidate i, which failed with err
Caught(o, ports, lk, ft, i, err) ==
    IF Rethrown(err)
    THEN [pc |-> "rejected", idx |-> i, result |-> Rejected(err), locked |-> lk,
          fate |-> ft, start |-> {}]
    ELSE Advance(o, ports, lk, ft, i + 1)

\* Advance with the lock-table test of line 189 left out: a locked candidate is probed
AdvanceIgnoresLock(o, ports, lk, ft, i) ==
    IF i > Len(ports)
    THEN [pc |-> "rejected", idx |-> i, result |-> Rejected(Exhausted(ports, lk)),
          locked |-> lk, fate |-> ft, start |-> {}]
    ELSE IF ports[i] \in o.exclude
         THEN Advance(o, ports, lk, Reached(ft, i, "skipped"), i + 1)
         ELSE [pc |-> "await", idx |-> i, result |-> Pending, locked |-> lk,
               fate |-> Reached(ft, i, "probed"),
               start |-> VerifyHosts(o, ports[i])]

\* lines 187-196: the loop from candidate i up to the next verifyPort
Advance(o, ports, lk, ft, i) ==
    IF i > Len(ports)
    THEN [pc |-> "rejected", idx |-> i, result |-> Rejected(Exhausted(ports, lk)),
          locked |-> lk, fate |-> ft, start |-> {}]
    ELSE LET port == ports[i]
         IN  IF port \in o.exclude \/ Has(lk, port)
             THEN IF Has(lk, port) /\ port # 0
                  THEN Caught(o, ports, lk, Reached(ft, i, "locked"), i,
                              LockedPortError(port))
                  ELSE Advance(o, ports, lk, Reached(ft, i, "skipped"), i + 1)
             ELSE [pc |-> "await", idx |-> i, result |-> Pending, locked |-> lk,
                   fate |-> Reached(ft, i, "probed"),
                   start |-> VerifyHosts(o, port)]

\* AfterVerify without the re-check of the lock table after the await (lines 198-202)
AfterVerifyNoRecheck(o, ports, lk, ft, i, outcome, t) ==
    IF outcome.state = "resolved"
    THEN [pc |-> "resolved", idx |-> i, result |-> Resolved(outcome.port),
          locked |-> MapSet(lk, outcome.port, t),
          fate |-> Verdict(ft, i, outcome), start |-> {}]
    ELSE Caught(o, ports, lk, Verdict(ft, i, outcome), i, outcome.err)

\* lines 196-205: verifyPort has settled with outcome at time t
AfterVerify(o, ports, lk, ft, i, outcome, t) ==
    IF outcome.state = "resolved"
    THEN LET availablePort == outcome.port
         IN  IF Has(lk, availablePort)
             THEN IF ports[i] # 0
                  THEN Caught(o, ports, lk, Verdict(ft, i, outcome), i,
                              LockedPortError(ports[i]))
                  ELSE [pc |-> "await", idx |-> i, result |-> Pending, locked |-> lk,
                        fate |-> Verdict(ft, i, outcome), start |-> VerifyHosts(o, 0)]
             ELSE [pc |-> "resolved", idx |-> i, result |-> Resolved(availablePort),
                   locked |-> MapSet(lk, availablePort, t),
                   fate |-> Verdict(ft, i, outcome), start |-> {}]
    ELSE Caught(o, ports, lk, Verdict(ft, i, outcome), i, outcome.err)

(***************************************************************************)
(* The calls the model makes.  A "concurrent" program makes NumCalls calls  *)
(* that may overlap, with options of OptionsConcurrent.  A "solo" program  *)
(* makes one call with any options of OptionsAll, a "probing" program one  *)
(* call with options of OptionsProbing.                                    *)
(***************************************************************************)
Timeouts == {0, 100}
PortLists == UNION {[1 .. n -> Ports] : n \in 0 .. MaxList}

\* any port option and exclusion set, with the default timeout and no host
OptionsPorts ==
    [port : {PortUndefined} \cup {PortNumber(p) : p \in Ports}
                \cup {PortArray(s) : s \in PortLists},
     exclude : SUBSET RealPorts,
     timeout : {<<>>},
     host : {<<>>}]

\* an ephemeral request, one preferred port or two, with any timeout and host
OptionsProbing ==
    [port : {PortUndefined, PortNumber(minPort), PortArray(<<minPort, minPort + 1>>)},
     exclude : {{}},
     timeout : {<<>>} \cup {<<t>> : t \in Timeouts},
     host : {<<>>, <<HostAny>>}]

OptionsAll == OptionsPorts \cup OptionsProbing

OptionsConcurrent ==
    [port : {PortUndefined, PortNumber(minPort), PortArray(<<minPort, minPort + 1>>)},
     exclude : {{}},
     timeout : {<<>>},
     host : {<<HostAny>>}]
        \cup {[port |-> PortArray(<<minPort + 1, minPort>>), exclude |-> {minPort + 1},
                timeout |-> <<>>, host |-> <<HostAny>>]}

NoOptions == [port |-> PortUndefined, exclude |-> {}, timeout |-> <<>>, host |-> <<>>]

\* an ephemeral request or one preferred port, on one host
OptionsSweeping ==
    [port : {PortUndefined, PortNumber(minPort)},
     exclude : {{}},
     timeout : {<<>>},
     host : {<<HostAny>>}]

\* the options the program may make a call with
OptionsOf(prog) ==
    CASE prog = "solo" -> OptionsAll
      [] prog = "probing" -> OptionsProbing
      [] prog = "sweeping" -> OptionsSweeping
      [] OTHER -> OptionsConcurrent

InitCommon ==
    /\ now = 0
    /\ cleanupTimer = NoTimer
    /\ opts = [c \in CallIds |-> NoOptions]
    /\ portsToCheck = [c \in CallIds |-> <<>>]
    /\ idx = [c \in CallIds |-> 0]
    /\ result = [c \in CallIds |-> Pending]
    /\ probes = [c \in CallIds |-> NoProbes]
    /\ fate = [c \in CallIds |-> <<>>]
    /\ range = NoRange

\* the program makes NumCalls calls, which may overlap
Init ==
    /\ InitCommon
    /\ config = DefaultConfig
    /\ program = "concurrent"
    /\ locked = EmptyMap
    /\ pc = [c \in CallIds |-> "idle"]

\* The program makes one call, having locked some ports itself before, as the
\* README shows (portManager.locked.set(3000, Date.now())).
InitSolo ==
    /\ InitCommon
    /\ config = DefaultConfig
    /\ program = "solo"
    /\ \E S \in SUBSET RealPorts : locked = [p \in S |-> 0]
    /\ pc = [c \in CallIds |-> IF c = 1 THEN "idle" ELSE "unused"]

\* the program makes one call, the lock table being empty
InitProbing ==
    /\ InitCommon
    /\ config = DefaultConfig
    /\ program = "probing"
    /\ locked = EmptyMap
    /\ pc = [c \in CallIds |-> IF c = 1 THEN "idle" ELSE "unused"]

\* the program makes NumCalls calls over several sweep periods
InitSweep ==
    /\ InitCommon
    /\ config = DefaultConfig
    /\ program = "sweeping"
    /\ locked = EmptyMap
    /\ pc = [c \in CallIds |-> "idle"]

\* The program calls getPortRange and adjusts portManager's bounds, some ports
\* being locked and the sweep armed or not.
InitRange ==
    /\ InitCommon
    /\ config = DefaultConfig
    /\ program = "ranges"
    /\ \E S \in SUBSET RealPorts : locked = [p \in S |-> 0]
    /\ pc = [c \in CallIds |-> "unused"]

(***************************************************************************)
(* Actions.                                                                *)
(***************************************************************************)
\* A probe that has settled, has no close callback left to run and is awaited
\* by nothing is garbage: its slot is free again.
Garbage(pr) == pr.promise.state # "pending" /\ pr.cbs = <<>>
Collect(ps, keep) ==
    [sl \in {x \in DOMAIN ps : x \in keep \/ ~Garbage(ps[x])} |-> ps[sl]]

\* the probes of a call after its body ran to position r
Started(ps, o, ports, r) ==
    [sl \in DOMAIN ps \cup ({r.idx} \X r.start) |->
        IF sl[1] = r.idx /\ sl[2] \in r.start
        THEN checkPortAvailability(ports[r.idx], o.timeout)
        ELSE ps[sl]]

\* lines 168-176: arm the sweep if it is not armed; since is the time the
\* interval was set, due the time it fires next
ArmTimer(timer, t) ==
    IF ~timer.armed THEN [armed |-> TRUE, due |-> t + cleanupInterval, since |-> t]
    ELSE timer

\* getOpenPort(o), up to its first await (lines 166-196)
getOpenPort(c, o) ==
    /\ pc[c] = "idle"
    /\ \A d \in CallIds : d < c => pc[d] # "idle"
    /\ LET ports == createPorts(o.port)
           r == Advance(o, ports, locked, [j \in 1 .. Len(ports) |-> Untried], 1)
       IN  /\ cleanupTimer' = ArmTimer(cleanupTimer, now)
           /\ opts' = [opts EXCEPT ![c] = o]
           /\ portsToCheck' = [portsToCheck EXCEPT ![c] = ports]
           /\ pc' = [pc EXCEPT ![c] = r.pc]
           /\ idx' = [idx EXCEPT ![c] = r.idx]
           /\ result' = [result EXCEPT ![c] = r.result]
           /\ fate' = [fate EXCEPT ![c] = r.fate]
           /\ locked' = r.locked
           /\ probes' = [probes EXCEPT ![c] = Started(@, o, ports, r)]
    /\ UNCHANGED <<now, program, config, range>>

\* the probe of call c in slot sl times out (lines 89-93)
TimerFires(c, sl) ==
    /\ sl \in DOMAIN probes[c]
    /\ probes[c][sl].timer = "armed"
    /\ probes' = [probes EXCEPT ![c][sl] = onTimeout(@)]
    /\ UNCHANGED <<now, locked, cleanupTimer, pc, opts, portsToCheck, idx, result, fate, program, config, range>>

\* the socket layer may still report a bind outcome for this probe
BindPending(pr) == pr.bind = "pending" /\ pr.promise.state = "pending"

\* the bind of the probe fails with an error of this code (lines 95-98)
BindFails(c, sl, code) ==
    /\ sl \in DOMAIN probes[c]
    /\ BindPending(probes[c][sl])
    /\ probes' = [probes EXCEPT ![c][sl] = onError(@, OsError(code))]
    /\ UNCHANGED <<now, locked, cleanupTimer, pc, opts, portsToCheck, idx, result, fate, program, config, range>>

\* The ports the OS hands out for a port-0 bind.  The socket layer knows
\* nothing of portManager's bounds: its ephemeral range is the system's, which
\* may reach below minPort.
OsPorts == (minPort - 1) .. (minPort + NumPorts - 1)
\* the ports the OS may bind a request for this port to
BoundPorts(port) == IF port = 0 THEN OsPorts ELSE {port}

\* the bind of the probe succeeds (lines 100-106)
BindSucceeds(c, sl, bound) ==
    /\ sl \in DOMAIN probes[c]
    /\ BindPending(probes[c][sl])
    /\ bound \in BoundPorts(probes[c][sl].port)
    /\ probes' = [probes EXCEPT ![c][sl] = onListening(@, bound)]
    /\ UNCHANGED <<now, locked, cleanupTimer, pc, opts, portsToCheck, idx, result, fate, program, config, range>>

\* The server of the probe has closed and its first close callback runs.  When
\* that settles the probe and the probe belongs to the verification call c
\* awaits, verifyPort and getOpenPort continue (lines 124-151 and 196-226).
ServerClosed(c, sl) ==
    LET pr == onClosed(probes[c][sl])
        ps == [probes[c] EXCEPT ![sl] = pr]
        o == opts[c]
        ports == portsToCheck[c]
        i == idx[c]
        awaited == /\ pc[c] = "await"
                   /\ sl[1] = i
                   /\ probes[c][sl].promise.state = "pending"
        hosts == VerifyHosts(o, ports[i])
        outcome == VerifyOutcome(o, ports[i], [h \in hosts |-> ps[<<i, h>>].promise], sl[2])
        r == AfterVerify(o, ports, locked, fate[c], i, outcome, now)
    IN  /\ sl \in DOMAIN probes[c]
        /\ probes[c][sl].cbs # <<>>
        /\ IF awaited /\ outcome.state # "pending"
           THEN /\ pc' = [pc EXCEPT ![c] = r.pc]
                /\ idx' = [idx EXCEPT ![c] = r.idx]
                /\ result' = [result EXCEPT ![c] = r.result]
                /\ fate' = [fate EXCEPT ![c] = r.fate]
                /\ locked' = r.locked
                /\ probes' = [probes EXCEPT ![c] = Started(Collect(ps, {}), o, ports, r)]
           ELSE /\ probes' = [probes EXCEPT ![c] =
                        Collect(ps, IF pc[c] = "await" THEN {i} \X hosts ELSE {})]
                /\ UNCHANGED <<pc, idx, result, fate, locked>>
        /\ UNCHANGED <<now, cleanupTimer, opts, portsToCheck, program, config, range>>

\* the interval fires: cleanupExpiredPorts (lines 50-57)
cleanupExpiredPorts ==
    /\ cleanupTimer.armed
    /\ now >= cleanupTimer.due
    /\ locked' = SweepAt(locked, now)
    /\ cleanupTimer' = [cleanupTimer EXCEPT !.due = @ + cleanupInterval]
    /\ UNCHANGED <<now, pc, opts, portsToCheck, idx, result, probes, fate, program, config, range>>

\* clearLockedPorts() without its clearInterval
clearLockedPortsKeepsTimer ==
    /\ locked' = EmptyMap
    /\ cleanupTimer' = cleanupTimer
    /\ UNCHANGED <<now, pc, opts, portsToCheck, idx, result, probes, fate, program, config, range>>

\* clearLockedPorts() (lines 261-267)
clearLockedPorts ==
    /\ locked' = EmptyMap
    /\ cleanupTimer' = IF cleanupTimer.armed THEN NoTimer ELSE cleanupTimer
    /\ UNCHANGED <<now, pc, opts, portsToCheck, idx, result, probes, fate, program, config, range>>

\* the clock advances by one sweep period; a due interval fires first
Tick ==
    /\ now < MaxTicks * cleanupInterval
    /\ ~(cleanupTimer.armed /\ now >= cleanupTimer.due)
    /\ now' = now + cleanupInterval
    /\ UNCHANGED <<locked, cleanupTimer, pc, opts, portsToCheck, idx, result, probes, fate, program, config, range>>

\* how many half sweep periods the clock of a sweeping program advances
MaxHalfTicks == 4

\* the clock advances by half a sweep period; a due interval fires first
HalfTick ==
    /\ program = "sweeping"
    /\ now < MaxHalfTicks * (cleanupInterval \div 2)
    /\ ~(cleanupTimer.armed /\ now >= cleanupTimer.due)
    /\ now' = now + cleanupInterval \div 2
    /\ UNCHANGED <<locked, cleanupTimer, pc, opts, portsToCheck, idx, result, probes,
                   fate, program, config, range>>

\* the arguments the program passes to getPortRange: integers around the
\* default bounds and the adjusted ones, a non-integer number, a string, NaN
RangeSpan == 4
RangeInts ==
    ((minPort - 1) .. (minPort + RangeSpan)) \cup {maxPort - 1, maxPort, maxPort + 1}
RangeArgs == {Num(n) : n \in RangeInts} \cup {Half(minPort), Str, NaN}
\* the pairs of arguments: no range asked for is longer than RangeSpan + 2 ports
RangePairs ==
    {a \in RangeArgs \X RangeArgs :
        (IsInteger(a[1]) /\ IsInteger(a[2])) => IntOf(a[2]) - IntOf(a[1]) <= RangeSpan + 1}
\* the bounds the program gives portManager (README, Configuration)
Configs ==
    [minPort : {minPort, minPort + 2}, maxPort : {minPort + 1, minPort + 3, maxPort}]

\* const range = getPortRange(from, to)
CallGetPortRange(from, to) ==
    /\ program = "ranges"
    /\ range' = [from |-> from, to |-> to, out |-> getPortRange(from, to, config),
                 called |-> TRUE]
    /\ UNCHANGED <<now, locked, cleanupTimer, pc, opts, portsToCheck, idx, result,
                   probes, fate, program, config>>

\* portManager.minPort = lo; portManager.maxPort = hi
SetBounds(pm) ==
    /\ program = "ranges"
    /\ config' = pm
    /\ UNCHANGED <<now, locked, cleanupTimer, pc, opts, portsToCheck, idx, result,
                   probes, fate, program, range>>

NextRange ==
    \/ \E a \in RangePairs : CallGetPortRange(a[1], a[2])
    \/ \E pm \in Configs : SetBounds(pm)

\* the steps of the calls and their probes
NextCalls ==
    \/ \E c \in CallIds : \E o \in OptionsOf(program) : getOpenPort(c, o)
    \/ \E c \in CallIds, sl \in Slots : TimerFires(c, sl)
    \/ \E c \in CallIds, sl \in Slots : \E code \in OsCodes : BindFails(c, sl, code)
    \/ \E c \in CallIds, sl \in Slots : \E bound \in OsPorts : BindSucceeds(c, sl, bound)
    \/ \E c \in CallIds, sl \in Slots : ServerClosed(c, sl)

Next ==
    \/ NextCalls
    \/ cleanupExpiredPorts
    \/ clearLockedPorts
    \/ Tick

\* concurrent calls, the clock, the sweep and clearLockedPorts
Spec == Init /\ [][Next]_vars
\* one call, with any options, on a lock table the program has filled
SpecSolo == InitSolo /\ [][NextCalls]_vars

NextSweep ==
    \/ NextCalls
    \/ cleanupExpiredPorts
    \/ clearLockedPorts
    \/ HalfTick

\* concurrent calls over several sweep periods, the clock advancing by halves
SpecSweep == InitSweep /\ [][NextSweep]_vars

\* getPortRange calls, with portManager's bounds adjusted in between
SpecRange == InitRange /\ [][NextRange]_vars

\* The event loop runs every callback that is due: an armed timer fires unless
\* it is cleared first, and a server that was closed runs its close callbacks.
\* A bind may stay pending for ever.
Fairness ==
    \A c \in CallIds, sl \in Slots :
        /\ WF_vars(TimerFires(c, sl))
        /\ WF_vars(ServerClosed(c, sl))
\* Concurrent calls, the clock, the sweep and clearLockedPorts, the event loop
\* being fair: time passes, and the sweep interval, a timer too, fires when due.
FairSpec == Spec /\ Fairness /\ WF_vars(cleanupExpiredPorts) /\ WF_vars(Tick)
\* one call of a probing program, the event loop being fair
FairProbing == InitProbing /\ [][NextCalls]_vars /\ Fairness

(***************************************************************************)
(* Claims.                                                                 *)
(***************************************************************************)
Started1(c) == pc[c] \in {"await", "resolved", "rejected"}

\* C1: at the moment a getOpenPort call commits a port (its promise resolves
\* and the port is reserved), that port is not in the lock table, so two calls
\* never hold the same reservation at once.
C1_CommitsUnlockedPort ==
    [][\A c \in CallIds :
          (pc[c] # "resolved" /\ pc'[c] = "resolved")
              => /\ ~Has(locked, result'[c].port)
                 /\ Has(locked', result'[c].port)]_vars

\* C1 witness: two overlapping calls raced for the same preferred port; one
\* reserved it and the other, which had passed the lock check before, found it
\* locked after its probe and was rejected.
C1_Witness ==
    \E c, d \in CallIds :
        /\ c # d
        /\ pc[c] = "resolved" /\ pc[d] = "rejected"
        /\ result[d].err = LockedPortError(result[c].port)
        /\ \E j \in 1 .. Len(portsToCheck[d]) :
              /\ portsToCheck[d][j] = result[c].port
              /\ fate[d][j].reach = "probed"
              /\ fate[d][j].verdict = Resolved(result[c].port)


\* the lock table as call c found it: in a run with a single call only its own
\* commit changes the table
LockedBefore(c) ==
    IF pc[c] = "resolved" THEN DOMAIN locked \ {result[c].port} ELSE DOMAIN locked

\* C2: a candidate that is in the lock table when getOpenPort reaches it is
\* never probed (verifyPort is not called for it, no slot of it holds a probe),
\* and when it is the only candidate the call rejects with LockedPortError
\* for it.
C2_LockedCandidateNotProbed ==
    \A c \in CallIds : Started1(c) =>
        \A i \in 1 .. Len(portsToCheck[c]) :
            portsToCheck[c][i] \in LockedBefore(c) =>
                /\ fate[c][i].reach # "probed"
                /\ \A h \in Hosts : <<i, h>> \notin DOMAIN probes[c]
                /\ Len(portsToCheck[c]) = 1 =>
                      /\ pc[c] = "rejected"
                      /\ result[c] = Rejected(LockedPortError(portsToCheck[c][i]))

\* C2 witness: a call whose only candidate was locked has been rejected.
C2_Witness ==
    \E c \in CallIds :
        /\ pc[c] = "rejected"
        /\ Len(portsToCheck[c]) = 1
        /\ portsToCheck[c][1] # 0
        /\ Has(locked, portsToCheck[c][1])
        /\ result[c].err.kind = "LockedPortError"

\* C3: a call that resolves never resolves to a port of its exclusion set.
C3_NeverResolvesExcluded ==
    \A c \in CallIds : pc[c] = "resolved" => result[c].port \notin opts[c].exclude

Range(s) == {s[k] : k \in 1 .. Len(s)}
\* the probe has bound its socket: its promise resolved or will resolve
Bound(pr) ==
    \/ pr.promise.state = "resolved"
    \/ \E k \in 1 .. Len(pr.cbs) : pr.cbs[k].state = "resolved"
\* candidate j of call c failed its verification with permission denied
FailedEACCES(c, j) ==
    /\ fate[c][j].verdict.state = "rejected"
    /\ fate[c][j].verdict.err.code = "EACCES"

\* C4 as stated: a call given preferred ports resolves to the first port of the
\* list that is available, that is not excluded, not locked and bindable on at
\* least one local host: no earlier candidate than the one it resolved to is
\* unexcluded, unlocked and bound on some host.
C4_FirstBindableOnSomeHost ==
    \A c \in CallIds :
        (pc[c] = "resolved" /\ opts[c].port.kind # "undefined") =>
            \A i \in 1 .. Len(portsToCheck[c]) :
                ( /\ portsToCheck[c][i] \notin opts[c].exclude
                  /\ portsToCheck[c][i] \notin LockedBefore(c)
                  /\ \E h \in Hosts : /\ <<i, h>> \in DOMAIN probes[c]
                                      /\ Bound(probes[c][<<i, h>>]) )
                    => i >= idx[c]

\* C4 amended: a call given preferred ports resolves to the first port of the
\* caller's list that is not excluded, not locked and whose verification
\* succeeds; every port before it in the list is excluded, locked, or failed
\* its verification with EACCES (on some host, whatever the other hosts did).
\* A single requested port that is won is returned exactly; a candidate 0
\* stands for the port the OS assigns.
C4_FirstVerifiedCandidate ==
    \A c \in CallIds :
        (pc[c] = "resolved" /\ opts[c].port.kind # "undefined") =>
            LET val == opts[c].port.val
                won == portsToCheck[c][idx[c]]
                first == Min({k \in 1 .. Len(val) : val[k] = won})
            IN  /\ won \in Range(val)
                /\ won # 0 => result[c].port = won
                /\ won \notin opts[c].exclude
                /\ won \notin LockedBefore(c)
                /\ result[c].port \notin LockedBefore(c)
                /\ fate[c][idx[c]].verdict = Resolved(result[c].port)
                /\ \A k \in 1 .. (first - 1) :
                      \E j \in 1 .. (idx[c] - 1) :
                          /\ portsToCheck[c][j] = val[k]
                          /\ \/ val[k] \in opts[c].exclude
                             \/ val[k] \in LockedBefore(c)
                             \/ FailedEACCES(c, j)

\* C4 witness: of two preferred ports the first failed with EACCES and the
\* call resolved to the second.
C4_Witness ==
    \E c \in CallIds :
        /\ pc[c] = "resolved"
        /\ opts[c].port.kind = "array"
        /\ idx[c] = 2
        /\ FailedEACCES(c, 1)
        /\ result[c].port = opts[c].port.val[2]

\* the errors the catch clause of getOpenPort does not swallow
Propagating(err) ==
    \/ err.code = "EADDRINUSE"
    \/ err.code # "EACCES" /\ err.kind # "LockedPortError"

\* C5: when the verification of a candidate fails with EADDRINUSE, or with any
\* error that is neither EACCES nor LockedPortError (a probe timeout, the
\* not-available error), the call has rejected with that same error and no
\* later candidate was reached or probed.
C5_FailurePropagates ==
    \A c \in CallIds : Started1(c) =>
        \A i \in 1 .. Len(portsToCheck[c]) :
            ( /\ fate[c][i].verdict.state = "rejected"
              /\ Propagating(fate[c][i].verdict.err) )
                => /\ pc[c] = "rejected"
                   /\ result[c] = fate[c][i].verdict
                   /\ \A j \in (i + 1) .. Len(portsToCheck[c]) :
                         /\ fate[c][j] = Untried
                         /\ \A h \in Hosts : <<j, h>> \notin DOMAIN probes[c]

\* C5 witness: the first of two candidates failed with EADDRINUSE and the call
\* rejected with it, the second candidate untried.
C5_Witness ==
    \E c \in CallIds :
        /\ pc[c] = "rejected"
        /\ Len(portsToCheck[c]) = 2
        /\ result[c] = Rejected(OsError("EADDRINUSE"))
        /\ fate[c][1].verdict = result[c]
        /\ fate[c][2] = Untried

PassedOver(c, j) ==
    \/ fate[c][j].reach \in {"skipped", "locked"}
    \/ FailedEACCES(c, j)

PassedTimeout(c) ==
    IF opts[c].timeout = <<>> THEN 1000 ELSE opts[c].timeout[1]
\* the same with a timeout of 0 counted as none (options.timeout || 1000)
EffectiveTimeout(c) ==
    IF opts[c].timeout = <<>> \/ opts[c].timeout[1] = 0 THEN 1000 ELSE opts[c].timeout[1]

IsTimeout(p) == p.state = "rejected" /\ p.err.kind = "timeout"
\* what the probe's promise settles with: its value, or the first close
\* callback waiting to run
WillSettle(pr) ==
    IF pr.promise.state # "pending" THEN pr.promise
    ELSE IF pr.cbs # <<>> THEN Head(pr.cbs)
    ELSE Pending
\* the probe in slot sl belongs to the verification call c is suspended in
Awaited(c, sl) ==
    /\ pc[c] = "await"
    /\ sl[1] = idx[c]
    /\ sl \in DOMAIN probes[c]
    /\ probes[c][sl].promise.state = "pending"
\* this step runs a close callback of the probe in slot sl of call c
ClosesNow(c, sl) ==
    /\ sl \in DOMAIN probes[c]
    /\ probes[c][sl].cbs # <<>>
    /\ \/ sl \notin DOMAIN probes'[c]
       \/ probes'[c][sl].socket = "closed"
       \/ probes'[c][sl].cbs = <<>>

\* C7 as stated: a probe whose timer fired before its bind completed or failed
\* rejects with the timeout error carrying exactly the timeout the caller
\* passed (1000 when none), and that rejection reaches the caller of
\* getOpenPort; a probe whose bind completed or failed first never rejects
\* with the timeout error.
C7_TimeoutCarriesPassedValue ==
    [][\A c \in CallIds : \A sl \in Slots :
          /\ (sl \in DOMAIN probes'[c] /\ probes'[c][sl].timer = "fired")
                => WillSettle(probes'[c][sl]) = Rejected(TimeoutError(PassedTimeout(c)'))
          /\ (sl \in DOMAIN probes'[c] /\ probes'[c][sl].timer = "cleared")
                => ~IsTimeout(WillSettle(probes'[c][sl]))
          /\ (ClosesNow(c, sl) /\ probes[c][sl].promise.state = "pending"
                  /\ IsTimeout(Head(probes[c][sl].cbs)))
                => /\ pc'[c] = "rejected"
                   /\ result'[c] = Head(probes[c][sl].cbs)]_vars

\* C7 amended: a probe whose timer fired before its bind completed or failed
\* rejects with the timeout error carrying the timeout the caller passed when
\* that is not 0, and 1000 when none or 0 was passed; when the probe belongs
\* to the verification its call is suspended in, the call rejects with that
\* error; a probe whose bind completed or failed first never rejects with the
\* timeout error.
C7_TimeoutCarriesEffectiveValue ==
    [][\A c \in CallIds : \A sl \in Slots :
          /\ (sl \in DOMAIN probes'[c] /\ probes'[c][sl].timer = "fired")
                => WillSettle(probes'[c][sl]) = Rejected(TimeoutError(EffectiveTimeout(c)'))
          /\ (sl \in DOMAIN probes'[c] /\ probes'[c][sl].timer = "cleared")
                => ~IsTimeout(WillSettle(probes'[c][sl]))
          /\ (ClosesNow(c, sl) /\ Awaited(c, sl)
                  /\ IsTimeout(Head(probes[c][sl].cbs)))
                => /\ pc'[c] = "rejected"
                   /\ result'[c] = Head(probes[c][sl].cbs)]_vars

\* C7 witness: a call made with a timeout of 100 was rejected with
\* 'Port check timed out after 100ms'.
C7_Witness ==
    \E c \in CallIds :
        /\ pc[c] = "rejected"
        /\ opts[c].timeout = <<100>>
        /\ result[c] = Rejected(TimeoutError(100))

\* every probe whose promise has settled has its server closed
SettledProbesClosed ==
    \A c \in CallIds : \A sl \in DOMAIN probes[c] :
        probes[c][sl].promise.state # "pending" => probes[c][sl].socket = "closed"

\* the probe of slot sl of call c holds a server not yet closed, or its
\* promise is not yet settled
Unfinished(c, sl) ==
    /\ sl \in DOMAIN probes[c]
    /\ \/ probes[c][sl].socket # "closed"
       \/ probes[c][sl].promise.state = "pending"

\* C8: on every exit path of a probe its server is closed before its promise
\* settles, and no probe keeps an open socket and a pending promise for ever:
\* whatever the order of the timer, the error and the listen callbacks, the
\* probe is again and again found closed and settled.
C8_SocketClosedBeforeSettle ==
    /\ []SettledProbesClosed
    /\ \A c \in CallIds : \A sl \in Slots : []<>(~Unfinished(c, sl))

\* C8 witness: in a fan-out one host's probe has settled, its server closed,
\* after its timer had been cleared, while another host's probe timed out and
\* is closing.
C8_Witness ==
    \E c \in CallIds : \E sl, tl \in DOMAIN probes[c] :
        /\ probes[c][sl].promise.state # "pending"
        /\ probes[c][sl].socket = "closed"
        /\ probes[c][sl].timer = "cleared"
        /\ probes[c][tl].timer = "fired"
        /\ probes[c][tl].socket = "closing"

\* the lock table is empty and no sweep interval is running
Cleared == DOMAIN locked = {} /\ ~cleanupTimer.armed

\* C9: from any reachable state clearLockedPorts() leaves the lock table empty
\* and the sweep disarmed, and called again right afterwards it changes
\* nothing.
C9_ClearEmptiesAndDisarms ==
    [][clearLockedPorts => (Cleared' /\ (Cleared => UNCHANGED vars))]_vars

\* C9 witness: a call has reserved a port and armed the sweep, and before any
\* sweep could run the table is empty and the sweep disarmed.
C9_Witness ==
    /\ Cleared
    /\ now = 0
    /\ \E c \in CallIds : pc[c] = "resolved"

\* C10: in the state right after a getOpenPort call inserts its port into the
\* lock table the sweep is armed, also when clearLockedPorts() ran while the
\* call was suspended at a probe.
C10_ReservationArmsSweep ==
    [][\A c \in CallIds :
          (pc[c] # "resolved" /\ pc'[c] = "resolved") => cleanupTimer'.armed]_vars

\* this step commits a reservation of call c
Reserves(c) == pc[c] # "resolved" /\ pc'[c] = "resolved"

\* C11: the sweep timer is present exactly when a reservation has been made
\* since the start or since the last clearLockedPorts(): absent at the start,
\* it becomes present only by a step that reserves a port, every step that
\* reserves a port leaves it present, and it is dropped only by
\* clearLockedPorts(); so a call that fails without reserving does not arm it.
C11_TimerIffReserved ==
    /\ ~cleanupTimer.armed
    /\ [][/\ (~cleanupTimer.armed /\ cleanupTimer'.armed)
                => \E c \in CallIds : Reserves(c)
          /\ (\E c \in CallIds : Reserves(c)) => cleanupTimer'.armed
          /\ (cleanupTimer.armed /\ ~cleanupTimer'.armed) => clearLockedPorts]_vars

\* what getPortRange(r.from, r.to) is to give when portManager's bounds are pm
RangeReference(r, pm) ==
    IF ~IsInteger(r.from) \/ ~IsInteger(r.to)
    THEN r.out = TypeError
    ELSE LET from == IntOf(r.from)
             to == IntOf(r.to)
         IN  IF from \notin pm.minPort .. pm.maxPort
             THEN r.out = BetweenError("from", pm.minPort, pm.maxPort)
             ELSE IF to \notin pm.minPort .. pm.maxPort
             THEN r.out = BetweenError("to", pm.minPort, pm.maxPort)
             ELSE IF from > to
             THEN r.out = OrderError
             ELSE /\ r.out.kind = "return"
                  /\ Len(r.out.value) = to - from + 1
                  /\ r.out.value[1] = from
                  /\ \A i \in 1 .. (Len(r.out.value) - 1) :
                        r.out.value[i + 1] = r.out.value[i] + 1

\* C12: getPortRange(from, to) gives a type error if either argument is not an
\* integer, else a range error naming from if from is outside portManager's
\* current bounds, else one naming to if to is, else a range error if
\* from > to, else the to - from + 1 consecutive integers from from; and the
\* call leaves the lock table, the sweep timer and the bounds as they were.
C12_RangeAsReference ==
    [][range' # range =>
          /\ range'.called
          /\ RangeReference(range', config)
          /\ UNCHANGED <<locked, cleanupTimer, config, now>>]_vars

\* C12 witness: with portManager's bounds adjusted, a call returned the two
\* ports of the adjusted interval while a port was locked.
C12_Witness ==
    /\ range.called
    /\ config = [minPort |-> minPort + 2, maxPort |-> minPort + 3]
    /\ range.out = Returned(<<minPort + 2, minPort + 3>>)
    /\ DOMAIN locked # {}

\* C13: a call made with no specific port that resolves, resolves to a port
\* within portManager's bounds [minPort, maxPort], whatever port the socket
\* layer reports for the bind.
C13_EphemeralWithinBounds ==
    \A c \in CallIds :
        (pc[c] = "resolved" /\ opts[c].port.kind = "undefined")
            => result[c].port \in minPort .. maxPort

\* this step starts a probe in slot sl of call c
NewProbe(c, sl) ==
    /\ sl \in DOMAIN probes'[c]
    /\ probes'[c][sl] = checkPortAvailability(portsToCheck'[c][sl[1]], opts'[c].timeout)
    /\ sl \notin DOMAIN probes[c] \/ probes[c][sl] # probes'[c][sl]
\* among the probes ps, the one of slot tl is unsettled or its socket not closed
StillRunning(ps, tl) ==
    /\ tl \in DOMAIN ps
    /\ ps[tl].socket # "closed" \/ ps[tl].promise.state = "pending"

\* C14 as stated: candidates are probed in the order of the list and never
\* overlap: when a probe of a candidate is started, no probe of an earlier
\* candidate, on any host, is unsettled or holds a socket not yet closed.
C14_CandidatesNeverOverlap ==
    [][\A c \in CallIds : \A sl \in Slots :
          NewProbe(c, sl) =>
              /\ sl[1] = idx'[c]
              /\ idx'[c] >= idx[c]
              /\ \A tl \in Slots : tl[1] < sl[1] => ~StillRunning(probes'[c], tl)]_vars

\* C14 amended: candidates are verified in the order of the list, and a probe
\* of a candidate is started only when the verification of every earlier
\* probed candidate has settled.  A probe of an earlier candidate that is
\* still unsettled or not yet closed then belongs to a fan-out over the hosts
\* that was abandoned because another host's probe failed with EACCES.
C14_VerificationsInOrder ==
    [][\A c \in CallIds : \A sl \in Slots :
          NewProbe(c, sl) =>
              /\ sl[1] = idx'[c]
              /\ idx'[c] >= idx[c]
              /\ \A k \in 1 .. (sl[1] - 1) :
                    fate'[c][k].reach = "probed" => fate'[c][k].verdict.state # "pending"
              /\ \A tl \in Slots :
                    (tl[1] < sl[1] /\ StillRunning(probes'[c], tl)) =>
                        /\ ~IsSingle(opts'[c], portsToCheck'[c][tl[1]])
                        /\ fate'[c][tl[1]].verdict = Rejected(OsError("EACCES"))]_vars

\* C14 witness: the probes of the second candidate are running while a probe
\* of the first candidate, abandoned on another host's EACCES, is still
\* waiting for its bind.
C14_Witness ==
    \E c \in CallIds : \E h, g \in Hosts :
        /\ pc[c] = "await" /\ idx[c] = 2
        /\ <<2, h>> \in DOMAIN probes[c]
        /\ <<1, g>> \in DOMAIN probes[c]
        /\ probes[c][<<1, g>>].bind = "pending"
        /\ probes[c][<<1, g>>].socket = "open"
        /\ FailedEACCES(c, 1)

\* candidate i of call c is verified by a fan-out over the hosts
FannedOut(c, i) ==
    /\ i \in 1 .. Len(portsToCheck[c])
    /\ fate[c][i].reach = "probed"
    /\ opts[c].host = <<>>
    /\ portsToCheck[c][i] # 0
\* this step runs a close callback of the probe in slot sl of call c
ClosingSlot(c, sl) ==
    /\ sl \in DOMAIN probes[c]
    /\ probes[c][sl].cbs # <<>>
    /\ \/ sl \notin DOMAIN probes'[c]
       \/ Len(probes'[c][sl].cbs) < Len(probes[c][sl].cbs)
\* what the probe on host h for candidate i has settled with once this step
\* is taken
SettledWith(c, i, h) ==
    IF ClosingSlot(c, <<i, h>>) THEN WillSettle(probes[c][<<i, h>>])
    ELSE probes[c][<<i, h>>].promise
\* this step settles the verification of candidate i of call c
Verified(c, i) ==
    /\ pc[c] = "await" /\ idx[c] = i
    /\ fate[c][i].verdict.state = "pending"
    /\ fate'[c][i].verdict.state # "pending"
\* a failure of one host that the fan-out tolerates
Tolerated(p) == p.state = "rejected" /\ p.err.code \in {"EADDRNOTAVAIL", "EINVAL"}

\* C15 as stated: in a fan-out over the hosts a failing probe does not block a
\* successful sibling: when some host's probe has bound the port, the
\* verification does not reject.
C15_SuccessfulSiblingWins ==
    \A c \in CallIds : \A i \in 1 .. Len(portsToCheck[c]) :
        ( /\ FannedOut(c, i)
          /\ \E h \in Hosts : /\ <<i, h>> \in DOMAIN probes[c]
                              /\ Bound(probes[c][<<i, h>>]) )
            => fate[c][i].verdict.state # "rejected"

\* C15 amended: in a fan-out over the hosts only a failure coded EADDRNOTAVAIL
\* or EINVAL is tolerated.  The verification resolves, with the requested
\* port, exactly when every host's probe has settled, none failed with
\* another error and at least one succeeded; the first probe to fail with
\* another error (timeout, address in use, permission denied) rejects the
\* verification with that error, whether or not a sibling has succeeded.
C15_OnlyTolerableFailuresPass ==
    [][\A c \in CallIds : \A i \in 1 .. MaxList :
          (FannedOut(c, i) /\ Verified(c, i)) =>
              LET after == [h \in Hosts |-> SettledWith(c, i, h)]
                  verdict == fate'[c][i].verdict
              IN  /\ \A h \in Hosts :
                        ( /\ ClosingSlot(c, <<i, h>>)
                          /\ after[h].state = "rejected"
                          /\ ~Tolerated(after[h]) ) => verdict = after[h]
                  /\ ( /\ \A h \in Hosts : after[h].state = "resolved" \/ Tolerated(after[h])
                       /\ \E h \in Hosts : after[h].state = "resolved" )
                        => verdict = Resolved(portsToCheck[c][i])
                  /\ verdict.state = "resolved" =>
                        /\ \A h \in Hosts : after[h].state = "resolved" \/ Tolerated(after[h])
                        /\ \E h \in Hosts : after[h].state = "resolved"]_vars

\* C15 witness: a call without a host was rejected with EADDRINUSE, the
\* failure of one host's probe, although the probe of the same port on
\* another host has bound it.
C15_Witness ==
    \E c \in CallIds : \E g \in Hosts :
        /\ pc[c] = "rejected"
        /\ opts[c].host = <<>>
        /\ result[c] = Rejected(OsError("EADDRINUSE"))
        /\ <<idx[c], g>> \in DOMAIN probes[c]
        /\ Bound(probes[c][<<idx[c], g>>])

\* the slots of call c in which this step starts a probe
NewSlots(c) == {sl \in Slots : NewProbe(c, sl)}

\* C16: verifyPort makes exactly one probe when a host is given or the port is
\* 0, and what that probe settles with is what the verification settles with;
\* otherwise it makes one probe per host of the host set, and once all have
\* settled, none with an error other than EADDRNOTAVAIL or EINVAL, it rejects
\* with the not-available error for the port if every host failed, and
\* resolves with the requested port if some host succeeded.
C16_FanOutRule ==
    [][\A c \in CallIds :
          /\ NewSlots(c) # {} =>
                LET i == idx'[c]
                    port == portsToCheck'[c][i]
                IN  IF opts'[c].host # <<>>
                    THEN NewSlots(c) = {<<i, opts'[c].host[1]>>}
                    ELSE IF port = 0
                    THEN NewSlots(c) = {<<i, HostUndefined>>}
                    ELSE NewSlots(c) = {i} \X createHosts
          /\ \A sl \in Slots :
                (ClosingSlot(c, sl) /\ Awaited(c, sl)) =>
                    LET i == sl[1]
                        port == portsToCheck[c][i]
                        verdict == fate'[c][i].verdict
                    IN  IF opts[c].host # <<>> \/ port = 0
                        THEN verdict = WillSettle(probes[c][sl])
                        ELSE LET after == [h \in createHosts |-> SettledWith(c, i, h)]
                             IN  /\ (\A h \in createHosts : Tolerated(after[h]))
                                       => verdict = Rejected(NotAvailableError(port))
                                 /\ ( /\ \A h \in createHosts :
                                            after[h].state = "resolved" \/ Tolerated(after[h])
                                      /\ \E h \in createHosts : after[h].state = "resolved" )
                                       => verdict = Resolved(port)]_vars

\* C16 witness: a call without a host was rejected with the not-available
\* error for its port, each host's probe having failed with a tolerated code.
C16_Witness ==
    \E c \in CallIds :
        /\ pc[c] = "rejected"
        /\ opts[c].host = <<>>
        /\ idx[c] \in 1 .. Len(portsToCheck[c])
        /\ portsToCheck[c][idx[c]] # 0
        /\ result[c] = Rejected(NotAvailableError(portsToCheck[c][idx[c]]))

\* Candidate j of call c did not end the call: it was excluded, found locked
\* before its verification or after it, or its verification failed with
\* permission denied, and the loop went on.
TurnedAway(c, j) ==
    \/ PassedOver(c, j)
    \/ fate[c][j].reach = "probed" /\ fate[c][j].verdict.state = "resolved" /\ idx[c] > j

\* this step ends call c by exhaustion: the loop ran past the last candidate
Exhausts(c) ==
    /\ pc[c] \in {"idle", "await"}
    /\ pc'[c] = "rejected"
    /\ idx'[c] > Len(portsToCheck'[c])

\* C17: a candidate that is excluded, locked, or whose verification fails with
\* EACCES does not end the call, which goes on to the next candidate; a call
\* ends only by resolving, by an error of another kind, or by exhaustion.  A
\* call that exhausts its candidates has passed over every one of them, and
\* rejects with LockedPortError for the first candidate of the list that is
\* in the lock table at that moment if there is one, and with 'No available
\* ports found' otherwise.
C17_PassedOverThenExhausted ==
    [][\A c \in CallIds :
          /\ (pc'[c] = "await" /\ (pc[c] = "idle" \/ idx'[c] > idx[c])) =>
                \A j \in 1 .. (idx'[c] - 1) : TurnedAway(c, j)'
          /\ (pc[c] \in {"idle", "await"} /\ pc'[c] = "rejected" /\ ~Exhausts(c)) =>
                /\ result'[c].err.code # "EACCES"
                /\ result'[c].err.kind # "LockedPortError"
                /\ result'[c] = fate'[c][idx'[c]].verdict
          /\ Exhausts(c) =>
                LET ports == portsToCheck'[c]
                    lockedOnes == {j \in 1 .. Len(ports) : ports[j] \in DOMAIN locked}
                IN  /\ \A j \in 1 .. Len(ports) : TurnedAway(c, j)'
                    /\ locked' = locked
                    /\ IF lockedOnes = {}
                       THEN result'[c] = Rejected(NoPortsError)
                       ELSE /\ result'[c].state = "rejected"
                            /\ result'[c].err.kind = "LockedPortError"
                            /\ \E j \in lockedOnes :
                                  /\ result'[c].err.arg = ports[j]
                                  /\ \A k \in lockedOnes : j <= k]_vars

\* C17 witness: of two candidates the first was excluded and the second, free
\* when the call reached it, was reserved by another call during the probe;
\* the call was rejected with LockedPortError for the second.
C17_Witness ==
    \E c \in CallIds :
        /\ pc[c] = "rejected"
        /\ Len(portsToCheck[c]) = 2
        /\ idx[c] = 3
        /\ fate[c][1].reach = "skipped"
        /\ fate[c][2].reach = "probed"
        /\ fate[c][2].verdict.state = "resolved"
        /\ result[c] = Rejected(LockedPortError(portsToCheck[c][2]))

\* this step of call c re-requests port 0: the port the OS assigned was found
\* in the lock table (lines 198-202)
RetryStarts(c) ==
    /\ pc[c] = "await" /\ pc'[c] = "await"
    /\ idx'[c] = idx[c]
    /\ NewSlots(c) # {}

SweepStep ==
    /\ cleanupTimer.armed /\ cleanupTimer'.armed
    /\ cleanupTimer'.due # cleanupTimer.due
\* the age of the reservation of port p
Age(p) == now - locked[p]

\* C19: a sweep at time now removes exactly the entries of age
\* >= cleanupInterval and leaves every other entry, port and timestamp, as it
\* was; an entry leaves the table only by a sweep that finds it that old or by
\* clearLockedPorts(); a port in the table counts as locked whatever its age;
\* and an entry made while the interval was armed, the interval staying
\* armed, never reaches the age of two sweep periods.
C19_SweepRemovesExactlyExpired ==
    /\ [][/\ SweepStep =>
                /\ DOMAIN locked' = {p \in DOMAIN locked : Age(p) < cleanupInterval}
                /\ \A p \in DOMAIN locked' : locked'[p] = locked[p]
          /\ \A p \in DOMAIN locked :
                \/ p \in DOMAIN locked' /\ locked'[p] = locked[p]
                \/ SweepStep /\ Age(p) >= cleanupInterval
                \/ locked' = EmptyMap /\ ~cleanupTimer'.armed
          /\ \A c \in CallIds :
                ( /\ pc[c] = "idle" /\ pc'[c] # "idle"
                  /\ portsToCheck'[c][1] \in DOMAIN locked )
                    => /\ fate'[c][1].reach = "locked"
                       /\ pc'[c] = "rejected"]_vars
    /\ [](\A p \in DOMAIN locked :
             (cleanupTimer.armed /\ cleanupTimer.since <= locked[p])
                 => Age(p) < 2 * cleanupInterval)

\* C19 witness: a reservation made half a period after the interval was set
\* has survived the first sweep and is one and a half periods old, the second
\* sweep being due.
C19_Witness ==
    \E p \in DOMAIN locked :
        /\ cleanupTimer.armed
        /\ cleanupTimer.since < locked[p]
        /\ Age(p) > cleanupInterval
        /\ now = cleanupTimer.due

\* this step belongs to call c: it starts it, settles one of its probes or
\* resumes it
CallStep(c) ==
    <<pc[c], idx[c], probes[c], fate[c], result[c]>>' #
        <<pc[c], idx[c], probes[c], fate[c], result[c]>>

\* C20: the step by which a call resolves with port p inserts exactly one
\* entry, p mapped to the time of that step, p not having been in the table,
\* and leaves every other entry as it was; every other step of a call, the
\* one by which it rejects included, leaves the lock table as it was.
C20_CallChangesOnlyItsEntry ==
    [][\A c \in CallIds :
          CallStep(c) =>
              IF Reserves(c)
              THEN /\ result'[c].port \notin DOMAIN locked
                   /\ DOMAIN locked' = DOMAIN locked \cup {result'[c].port}
                   /\ locked'[result'[c].port] = now
                   /\ \A q \in DOMAIN locked : locked'[q] = locked[q]
              ELSE locked' = locked]_vars

\* C20 witness: one call reserved a port at time 0 and the other reserved
\* another port one sweep period later, before the sweep ran; the first entry
\* still carries its own timestamp.
C20_Witness ==
    \E c, d \in CallIds :
        /\ pc[c] = "resolved" /\ pc[d] = "resolved"
        /\ result[c].port # result[d].port
        /\ {result[c].port, result[d].port} \subseteq DOMAIN locked
        /\ locked[result[c].port] = 0
        /\ locked[result[d].port] = cleanupInterval
        /\ now = cleanupInterval

=============================================================================
